---- MODULE Spec2Model ----
(***************************************************************************)
(* Model of the /analyze request handler of server.py and of the shared    *)
(* scraping_semaphore that gates the browser (render) phase.               *)
(*                                                                         *)
(* Every /analyze request is an asyncio coroutine.  One action of the      *)
(* model is the code the event loop runs between two suspension points of  *)
(* a coroutine (an await on network I/O, on the semaphore or on the        *)
(* browser).  client.models.generate_content is a synchronous call: while  *)
(* it runs the event loop is blocked and no other coroutine takes a step.  *)
(* A site of a request is its position in params.websites.                 *)
(***************************************************************************)
EXTENDS Integers, Sequences, FiniteSets, TLC

\* Number of /analyze coroutines that can overlap.
NumRequests == 2
\* Longest params.websites list.
MaxSites == 2

Requests == 1..NumRequests

VARIABLES
    scraping_semaphore,  \* the asyncio.Semaphore: value, waiters, woken futures
    holders,             \* instrumentation: requests that own the permit
    task,                \* per request: the frame of analyze_products
    log_task,            \* per request: the log_search_to_supabase task
    call                 \* a call of one of the module's helper functions

vars == <<scraping_semaphore, holders, task, log_task, call>>

----------------------------------------------------------------------------
(* Inputs the environment chooses.                                         *)

\* What client.get gives lightweight_fetch: an exception (timeout, network
\* error), a non-200 status, a 200 body with the takealot hydration marker,
\* a 200 body longer than 5000 characters, a 200 body that is neither.
LwResponses == {"exception", "non200", "hydrated", "large", "small"}

\* What crawler.arun gives crawl_site: result.success, not result.success,
\* or an exception.
CrawlResults == {"success", "failed", "exception"}

\* What one generate_content call leads to: the call raises, response.text
\* is empty, robust_json_extract raises on the text, or it parses.
AiOutcomes == {"raised", "empty", "unparseable", "parsed"}

----------------------------------------------------------------------------
(* asyncio.Semaphore, as used through "async with scraping_semaphore".     *)
(* value is the counter, waiters the queue of futures of suspended         *)
(* acquirers (first in, first out), woken the waiters whose future release *)
(* has completed: release takes the value on behalf of the waiter it wakes.*)

SemaphoreInit == [value |-> 1, waiters |-> <<>>, woken |-> {}]

\* A semaphore that never reports itself taken.
locked_never(sem) == FALSE

locked(sem) == sem.value = 0 \/ sem.waiters # <<>>

\* Index of the first waiter whose future is not done, 0 if there is none.
FirstPending(sem) ==
    LET idx == {i \in 1..Len(sem.waiters) : sem.waiters[i] \notin sem.woken}
    IN  IF idx = {} THEN 0 ELSE CHOOSE i \in idx : \A j \in idx : i <= j

\* A release that wakes no waiter.
wake_up_nobody(sem) == sem

wake_up_next(sem) ==
    LET i == FirstPending(sem)
    IN  IF i = 0 THEN sem
        ELSE [sem EXCEPT !.value = @ - 1, !.woken = @ \cup {sem.waiters[i]}]

\* A release that gives nothing back.
release_nothing(sem) == sem

\* Semaphore.release: the value goes up and the first pending waiter is woken.
release(sem) == wake_up_next([sem EXCEPT !.value = @ + 1])

\* A release that is skipped when the block is left by an exception.
SemAfterExit_no_finally(sem, raising) == IF raising THEN sem ELSE release(sem)

\* The semaphore on leaving the "async with" block; raising tells whether the
\* block is left by an exception.  __aexit__ releases either way.
SemAfterExit(sem, raising) == release(sem)

\* The permit's owners after request r left the block: r gives it up, the
\* waiter that release woke now owns it (release took the value for it).
HoldersAfterExit(r, sem, raising) ==
    LET s2 == SemAfterExit(sem, raising)
    IN  IF s2 = sem THEN holders
        ELSE (holders \ {r}) \cup (s2.woken \ sem.woken)

RemoveWaiter(ws, r) == SelectSeq(ws, LAMBDA w : w # r)

----------------------------------------------------------------------------
(* The frame of one analyze_products call.                                 *)

\* pc is the suspension point of the handler; x_api_key, websites,
\* all_markdown, sites_needing_browser and crawler are its arguments and
\* locals; response is what it returned or raised.  The other fields record
\* what it has done: the lightweight fetches issued and in flight, the entries
\* into the semaphore, whether the browser started, the render fetches issued
\* and in flight, and the generate_content calls with mode and outcome.
\* The helper functions are specified on their own, further down: the steps
\* of the handler leave call alone.
NoCall == [fn |-> "none"]

IdleTask ==
    [pc |-> "idle",
     x_api_key |-> FALSE,
     websites |-> <<>>,
     lw_inflight |-> {},
     lw_tried |-> <<>>,
     all_markdown |-> <<>>,
     sites_needing_browser |-> <<>>,
     acquires |-> 0,
     crawler |-> "none",
     crawler_started |-> FALSE,
     crawl_inflight |-> {},
     render_tried |-> <<>>,
     ai_calls |-> <<>>,
     response |-> "none"]

Init ==
    /\ scraping_semaphore = SemaphoreInit
    /\ holders = {}
    /\ task = [r \in Requests |-> IdleTask]
    /\ log_task = [r \in Requests |-> "none"]
    /\ call = NoCall

----------------------------------------------------------------------------
(* Pure helpers of the handler.                                            *)

\* A fetch that takes every 200 body, useful or not.
lightweight_fetch_any_200(resp) == resp \in {"hydrated", "large", "small"}

\* lightweight_fetch: TRUE iff it returns the extracted block, FALSE iff it
\* returns None.
lightweight_fetch(resp) == resp \in {"hydrated", "large"}

\* crawl_site: TRUE iff it returns the extracted block, FALSE iff it returns "".
crawl_site(res) == res = "success"

\* The text block extract_content_from_html returns for a site: never empty,
\* it starts with the "--- SOURCE" header.
Block(site, via) == [site |-> site, via |-> via]

\* A corpus that grows at the front.
AddBlock_prepend(md, b) == <<b>> \o md

\* all_markdown += block + "\n"
AddBlock(md, b) == Append(md, b)

\* All fetches issued together on entering the loop.
NextSites_gather(ws, s) == IF s = 0 THEN 1..Len(ws) ELSE {}

\* The sites whose lightweight fetch is issued once the fetch of site s has
\* been handled (s = 0: on entering the loop).  The for loop awaits each
\* fetch before it goes on to the next site.
NextSites(ws, s) == IF s < Len(ws) THEN {s + 1} ELSE {}

\* The branch without its else: a fetched site is queued for the browser too.
AfterFetch_no_else(t, s, got) ==
    IF got
    THEN [t EXCEPT !.all_markdown = AddBlock(@, Block(s, "lightweight")),
                   !.sites_needing_browser = Append(@, s)]
    ELSE [t EXCEPT !.sites_needing_browser = Append(@, s)]

\* if fetched_content: ... else: sites_needing_browser.append(site)
AfterFetch(t, s, got) ==
    IF got
    THEN [t EXCEPT !.all_markdown = AddBlock(@, Block(s, "lightweight"))]
    ELSE [t EXCEPT !.sites_needing_browser = Append(@, s)]

\* A loop that an exception of one attempt ends.
LoopContinues_unless_exception(res) == res # "exception"

\* The inner try/except around crawl_site: the loop goes on to the next site
\* whatever the attempt gave.
LoopContinues(res) == TRUE

\* A handler without the credential check.
CredentialMissing_never(key) == FALSE

\* if not x_api_key
CredentialMissing(key) == ~key

\* A handler without the empty-corpus checks.
NoContent_never(md) == FALSE

\* not all_markdown.strip()
NoContent(md) == md = <<>>

\* A retry that repeats the primary call.
CallMode_same(n) == "search"

\* The mode of the n-th generate_content call: the primary call has the
\* google_search tool, the retry has response_mime_type application/json.
CallMode(n) == IF n = 1 THEN "search" ELSE "json"

\* Lines 356-362 and 373-379: the n-th generate_content call is made.
CallModel(t, n) ==
    [t EXCEPT !.ai_calls = Append(@, [mode |-> CallMode(n), outcome |-> "pending"]),
              !.pc = IF n = 1 THEN "ai_primary" ELSE "ai_retry"]

\* Lines 349-362: the empty-corpus check, then the primary call.
Finish(t) ==
    IF NoContent(t.all_markdown)
    THEN [t EXCEPT !.response = "500_no_content", !.pc = "done"]
    ELSE CallModel(t, 1)

\* Lines 364-371: the primary attempt fails when the call raised, when
\* response.text is empty and when robust_json_extract raises.
AttemptFailed(out) == out # "parsed"

----------------------------------------------------------------------------
(* Steps of the handler.                                                   *)

\* No coroutine takes a step while a handler sits in the synchronous
\* generate_content call.  The frame of a handler that has returned or raised
\* is gone before any other coroutine runs: the model keeps it for one state,
\* in which the outcome of the request can be read, and Return drops it.
LoopFree == \A q \in Requests : task[q].pc \notin {"ai_primary", "ai_retry", "done"}

\* A handler that enters the semaphore whether or not a site needs the browser.
AfterLightweight_always_enter(r, t) ==
    IF ~locked(scraping_semaphore)
    THEN /\ scraping_semaphore' = [scraping_semaphore EXCEPT !.value = @ - 1]
         /\ holders' = holders \cup {r}
         /\ task' = [task EXCEPT ![r] =
                [t EXCEPT !.pc = "browser_start", !.crawler = "starting",
                          !.acquires = @ + 1]]
    ELSE /\ scraping_semaphore' =
                [scraping_semaphore EXCEPT !.waiters = Append(@, r)]
         /\ task' = [task EXCEPT ![r] = [t EXCEPT !.pc = "sem_wait"]]
         /\ UNCHANGED holders

\* Lines 309-313: after the lightweight loop.  With nothing to render the
\* handler goes straight to the end; otherwise it enters the semaphore, at
\* once when it is free, as a queued waiter when it is not.
AfterLightweight(r, t) ==
    IF t.sites_needing_browser = <<>>
    THEN /\ task' = [task EXCEPT ![r] = Finish(t)]
         /\ UNCHANGED <<scraping_semaphore, holders>>
    ELSE IF ~locked(scraping_semaphore)
    THEN /\ scraping_semaphore' = [scraping_semaphore EXCEPT !.value = @ - 1]
         /\ holders' = holders \cup {r}
         /\ task' = [task EXCEPT ![r] =
                [t EXCEPT !.pc = "browser_start", !.crawler = "starting",
                          !.acquires = @ + 1]]
    ELSE /\ scraping_semaphore' =
                [scraping_semaphore EXCEPT !.waiters = Append(@, r)]
         /\ task' = [task EXCEPT ![r] = [t EXCEPT !.pc = "sem_wait"]]
         /\ UNCHANGED holders

\* Lines 283-302: a request arrives.  The log task is created, the credential
\* is checked, and the handler suspends in the first lightweight fetch.
\* Slot r of the model is free for a new request once the handler and the log
\* task of its last request are over.
NewRequest(r, key, n) ==
    /\ LoopFree
    /\ task[r].pc = "idle"
    /\ log_task[r] # "scheduled"
    /\ log_task' = [log_task EXCEPT ![r] = "scheduled"]
    /\ LET t0 == [IdleTask EXCEPT !.x_api_key = key,
                                  !.websites = [i \in 1..n |-> i]]
           first == NextSites(t0.websites, 0)
       IN  IF CredentialMissing(key)
           THEN /\ task' = [task EXCEPT ![r] =
                        [t0 EXCEPT !.response = "400", !.pc = "done"]]
                /\ UNCHANGED <<scraping_semaphore, holders>>
           ELSE IF first = {}
           THEN AfterLightweight(r, t0)
           ELSE /\ task' = [task EXCEPT ![r] =
                        [t0 EXCEPT !.pc = "lw_fetch", !.lw_inflight = first,
                                   !.lw_tried = <<1>>]]
                /\ UNCHANGED <<scraping_semaphore, holders>>

\* What log_search_to_supabase does: it returns at once when the module has
\* no Supabase client (not configured), otherwise it inserts the row (ok) or
\* logs the exception of the insert.
LogOutcome(configured, ok) ==
    IF ~configured THEN "skipped" ELSE IF ok THEN "logged" ELSE "failed"

\* Lines 264-280: the log task runs; it has no await.  Nothing keeps a
\* reference to the task or to its outcome: when it is over it is gone.
LogSearch(r, configured, ok) ==
    /\ LoopFree
    /\ log_task[r] = "scheduled"
    /\ LogOutcome(configured, ok) \in {"skipped", "logged", "failed"}
    /\ log_task' = [log_task EXCEPT ![r] = "none"]
    /\ UNCHANGED <<scraping_semaphore, holders, task>>

\* Lines 300-306: the lightweight fetch of site s returns.  The loop goes on
\* to the next site, or the handler leaves the loop.  The log task was made
\* ready before the handler first suspended, so it has run by now.
LightweightReturn(r, s, resp) ==
    /\ LoopFree
    /\ task[r].pc = "lw_fetch"
    /\ s \in task[r].lw_inflight
    /\ log_task[r] # "scheduled"
    /\ UNCHANGED log_task
    /\ LET t1   == AfterFetch(task[r], s, lightweight_fetch(resp))
           next == NextSites(t1.websites, s)
           t2   == [t1 EXCEPT !.lw_inflight = (@ \ {s}) \cup next]
       IN  IF next # {}
           THEN /\ task' = [task EXCEPT ![r] =
                        [t2 EXCEPT !.lw_tried = Append(@, s + 1)]]
                /\ UNCHANGED <<scraping_semaphore, holders>>
           ELSE AfterLightweight(r, t2)

\* Line 313: a queued waiter that release has woken resumes inside the
\* "async with" block and starts the browser.
SemResume(r) ==
    /\ LoopFree
    /\ task[r].pc = "sem_wait"
    /\ r \in scraping_semaphore.woken
    /\ LET s1 == [scraping_semaphore EXCEPT
                      !.waiters = RemoveWaiter(@, r), !.woken = @ \ {r}]
           s2 == IF s1.value > 0 THEN wake_up_next(s1) ELSE s1
       IN  /\ scraping_semaphore' = s2
           /\ holders' = holders \cup (s2.woken \ s1.woken)
    /\ task' = [task EXCEPT ![r] =
            [@ EXCEPT !.pc = "browser_start", !.crawler = "starting",
                      !.acquires = @ + 1]]
    /\ UNCHANGED log_task

\* An except branch that raises the 500 whatever the corpus holds.
CrawlerFailed_always_raise(r, t) ==
    /\ scraping_semaphore' = SemAfterExit(scraping_semaphore, TRUE)
    /\ holders' = HoldersAfterExit(r, scraping_semaphore, TRUE)
    /\ task' = [task EXCEPT ![r] =
            [t EXCEPT !.response = "500_crawler", !.pc = "done"]]

\* Lines 341-347: the except branch of the browser block, then the exit of the
\* semaphore block.  With no content the handler raises the 500; with content
\* from the lightweight phase it goes on to the analysis.
CrawlerFailed(r, t) ==
    LET raising == NoContent(t.all_markdown)
    IN  /\ scraping_semaphore' = SemAfterExit(scraping_semaphore, raising)
        /\ holders' = HoldersAfterExit(r, scraping_semaphore, raising)
        /\ task' = [task EXCEPT ![r] =
                IF raising
                THEN [t EXCEPT !.response = "500_crawler", !.pc = "done"]
                ELSE Finish(t)]

\* Crawl of the k-th site of sites_needing_browser is issued (line 336).
StartCrawl(t, k) ==
    [t EXCEPT !.pc = "render",
              !.crawl_inflight = {t.sites_needing_browser[k]},
              !.render_tried = Append(@, t.sites_needing_browser[k])]

\* Line 330: AsyncWebCrawler.__aenter__ returns or raises.
BrowserStartReturn(r, ok) ==
    /\ LoopFree
    /\ task[r].pc = "browser_start"
    /\ UNCHANGED log_task
    /\ IF ok
       THEN /\ task' = [task EXCEPT ![r] =
                    StartCrawl([@ EXCEPT !.crawler = "open",
                                         !.crawler_started = TRUE], 1)]
            /\ UNCHANGED <<scraping_semaphore, holders>>
       ELSE CrawlerFailed(r, [task[r] EXCEPT !.crawler = "none"])

\* Lines 332-340: crawler.arun returns for the site being crawled.  The loop
\* goes on to the next site, or the browser block is left and the browser
\* shuts down.
CrawlReturn(r, res) ==
    /\ LoopFree
    /\ task[r].pc = "render"
    /\ task[r].crawl_inflight # {}
    /\ UNCHANGED <<log_task, scraping_semaphore, holders>>
    /\ LET s  == CHOOSE x \in task[r].crawl_inflight : TRUE
           t1 == IF crawl_site(res)
                 THEN [task[r] EXCEPT
                          !.all_markdown = AddBlock(@, Block(s, "rendered")),
                          !.crawl_inflight = {}]
                 ELSE [task[r] EXCEPT !.crawl_inflight = {}]
           k  == Len(t1.render_tried) + 1
       IN  task' = [task EXCEPT ![r] =
               IF LoopContinues(res) /\ k <= Len(t1.sites_needing_browser)
               THEN StartCrawl(t1, k)
               ELSE [t1 EXCEPT !.pc = "browser_stop", !.crawler = "closing"]]

\* Line 330: AsyncWebCrawler.__aexit__ returns or raises; the semaphore block
\* is left either way.
BrowserStopReturn(r, ok) ==
    /\ LoopFree
    /\ task[r].pc = "browser_stop"
    /\ UNCHANGED log_task
    /\ LET t1 == [task[r] EXCEPT !.crawler = "none"]
       IN  IF ok
           THEN /\ scraping_semaphore' = SemAfterExit(scraping_semaphore, FALSE)
                /\ holders' = HoldersAfterExit(r, scraping_semaphore, FALSE)
                /\ task' = [task EXCEPT ![r] = Finish(t1)]
           ELSE CrawlerFailed(r, t1)

\* Lines 364-379: the primary call is over.  A parsed result is returned;
\* anything else sends the handler into the retry call.  The handler keeps
\* nothing of the failure but the fact (the exception is only logged).
PrimaryReturn(r, out) ==
    /\ task[r].pc = "ai_primary"
    /\ LET t1 == [task[r] EXCEPT !.ai_calls[1].outcome =
                         IF AttemptFailed(out) THEN "failed" ELSE "parsed"]
       IN  task' = [task EXCEPT ![r] =
               IF AttemptFailed(out)
               THEN CallModel(t1, 2)
               ELSE [t1 EXCEPT !.response = "ok", !.pc = "done"]]
    /\ UNCHANGED <<scraping_semaphore, holders, log_task>>

\* Lines 380-383: the retry call is over.  robust_json_extract raises on an
\* empty or unparseable text, and the handler raises the 500 whatever the
\* exception was.
RetryReturn(r, out) ==
    /\ task[r].pc = "ai_retry"
    /\ task' = [task EXCEPT ![r] =
            [@ EXCEPT !.ai_calls[2].outcome =
                          IF AttemptFailed(out) THEN "failed" ELSE "parsed",
                      !.response = IF AttemptFailed(out) THEN "500_ai" ELSE "ok",
                      !.pc = "done"]]
    /\ UNCHANGED <<scraping_semaphore, holders, log_task>>

\* The handler has returned its result or raised its HTTPException: the frame
\* is dropped.  A log task that has not run yet stays scheduled.
Return(r) ==
    /\ task[r].pc = "done"
    /\ task' = [task EXCEPT ![r] = IdleTask]
    /\ UNCHANGED <<scraping_semaphore, holders, log_task>>

----------------------------------------------------------------------------

Arrive == \E r \in Requests, key \in BOOLEAN, n \in 0..MaxSites :
              NewRequest(r, key, n) /\ UNCHANGED call

Log == \E r \in Requests, configured \in BOOLEAN, ok \in BOOLEAN :
           LogSearch(r, configured, ok) /\ UNCHANGED call

Lightweight == \E r \in Requests, s \in 1..MaxSites, resp \in LwResponses :
                   LightweightReturn(r, s, resp) /\ UNCHANGED call

Resume == \E r \in Requests : SemResume(r) /\ UNCHANGED call

BrowserStart == \E r \in Requests, ok \in BOOLEAN :
                    BrowserStartReturn(r, ok) /\ UNCHANGED call

Crawl == \E r \in Requests, res \in CrawlResults :
             CrawlReturn(r, res) /\ UNCHANGED call

BrowserStop == \E r \in Requests, ok \in BOOLEAN :
                   BrowserStopReturn(r, ok) /\ UNCHANGED call

Primary == \E r \in Requests, out \in AiOutcomes :
               PrimaryReturn(r, out) /\ UNCHANGED call

Retry == \E r \in Requests, out \in AiOutcomes :
             RetryReturn(r, out) /\ UNCHANGED call

Respond == \E r \in Requests : Return(r) /\ UNCHANGED call

\* What a request does once it has arrived.
Progress(r) ==
    /\ UNCHANGED call
    /\ \/ \E configured \in BOOLEAN, ok \in BOOLEAN : LogSearch(r, configured, ok)
       \/ \E s \in 1..MaxSites, resp \in LwResponses : LightweightReturn(r, s, resp)
       \/ SemResume(r)
       \/ \E ok \in BOOLEAN : BrowserStartReturn(r, ok)
       \/ \E res \in CrawlResults : CrawlReturn(r, res)
       \/ \E ok \in BOOLEAN : BrowserStopReturn(r, ok)
       \/ \E out \in AiOutcomes : PrimaryReturn(r, out)
       \/ \E out \in AiOutcomes : RetryReturn(r, out)
       \/ Return(r)

Next == Arrive \/ Log \/ Lightweight \/ Resume \/ BrowserStart \/ Crawl
            \/ BrowserStop \/ Primary \/ Retry \/ Respond

Spec == Init /\ [][Next]_vars

\* The event loop runs every ready coroutine in its turn (its ready queue is
\* first in, first out), and every fetch, browser start, browser shutdown and
\* generate_content call returns; requests arrive when they will.  A step of
\* a request is disabled while another handler blocks the loop, so the
\* fairness is strong.
FairSpec == Spec /\ \A r \in Requests : SF_vars(Progress(r))

----------------------------------------------------------------------------
(* Properties.                                                             *)

\* The render fetches (crawl_site calls) in flight, over all requests.
RenderFetches ==
    UNION {{<<r, s>> : s \in task[r].crawl_inflight} : r \in Requests}

\* The requests that have a browser instance.
Browsers == {r \in Requests : task[r].crawler # "none"}

\* The requests inside the "async with scraping_semaphore" block.
InRenderPhase ==
    {r \in Requests : \/ task[r].pc \in {"browser_start", "render", "browser_stop"}
                      \/ task[r].pc = "sem_wait" /\ r \in scraping_semaphore.woken}

\* C1: at most one render fetch and at most one browser instance exist in the
\* whole process at any time, and a request has a browser or a render fetch
\* only while it owns the permit of scraping_semaphore.
C1_OneRenderAtATime ==
    /\ Cardinality(RenderFetches) <= 1
    /\ Cardinality(Browsers) <= 1
    /\ \A r \in Requests :
           (task[r].crawler # "none" \/ task[r].crawl_inflight # {})
               => r \in holders /\ task[r].acquires = 1

\* Two requests overlap: one is crawling while the other waits for the permit.
C1_Witness ==
    \E r, q \in Requests :
        /\ r # q
        /\ task[r].crawl_inflight # {}
        /\ task[q].pc = "sem_wait"
        /\ q \notin scraping_semaphore.woken

\* C2: the permit is owned only by requests inside their render phase, and the
\* semaphore's value accounts for every owner: a request that has left the
\* phase on any path (to the analysis, to a 500, to its end) has released it.
C2_PermitOnlyInRenderPhase ==
    /\ holders = InRenderPhase
    /\ scraping_semaphore.value = 1 - Cardinality(holders)

\* A request whose browser failed with no content has raised the 500 and the
\* permit is free again.
C2_Witness ==
    \E r \in Requests :
        /\ task[r].pc = "done"
        /\ task[r].response = "500_crawler"
        /\ task[r].acquires = 1
        /\ holders = {}
        /\ scraping_semaphore.value = 1

\* C3: under fair scheduling, with every fetch and every browser start and
\* shutdown returning, a request that waits for the permit eventually gets it.
C3_WaiterEventuallyAcquires ==
    \A r \in Requests :
        (task[r].pc = "sem_wait") ~> (task[r].pc = "browser_start")

\* A waiter is handed the permit by a request whose render phase ended in
\* the crawler 500.
C3_Witness ==
    \E r, q \in Requests :
        /\ r # q
        /\ task[q].pc = "done"
        /\ task[q].response = "500_crawler"
        /\ task[r].pc = "sem_wait"
        /\ r \in scraping_semaphore.woken
        /\ r \in holders

\* The sites of a request: the positions of params.websites.
Sites(r) == 1..Len(task[r].websites)

\* The positions of the corpus of request r that hold a block of site s.
BlocksOf(r, s) ==
    {i \in 1..Len(task[r].all_markdown) : task[r].all_markdown[i].site = s}

Range(q) == {q[i] : i \in 1..Len(q)}

NoDuplicates(q) == \A i, j \in 1..Len(q) : q[i] = q[j] => i = j

IsPrefix(p, q) == Len(p) <= Len(q) /\ \A i \in 1..Len(p) : p[i] = q[i]

\* The handler is past both fetch phases: the corpus is complete.
CorpusAssembled(r) == task[r].pc \in {"ai_primary", "ai_retry", "done"}

C5_OneOutcomePerSite ==
    \A r \in Requests :
        task[r].x_api_key =>
            /\ IsPrefix(task[r].lw_tried, task[r].websites)
            /\ task[r].pc \notin {"idle", "lw_fetch"}
                   => task[r].lw_tried = task[r].websites
            /\ NoDuplicates(task[r].render_tried)
            /\ Range(task[r].render_tried) \subseteq Range(task[r].sites_needing_browser)
            /\ \A s \in Sites(r) : Cardinality(BlocksOf(r, s)) <= 1
            /\ CorpusAssembled(r) =>
                   \A s \in Sites(r) :
                       LET lw_ok    == Block(s, "lightweight") \in Range(task[r].all_markdown)
                           rendered == Block(s, "rendered") \in Range(task[r].all_markdown)
                           failed   == /\ s \in Range(task[r].sites_needing_browser)
                                       /\ BlocksOf(r, s) = {}
                       IN  Cardinality({k \in {1, 2, 3} :
                               \/ k = 1 /\ lw_ok
                               \/ k = 2 /\ rendered
                               \/ k = 3 /\ failed}) = 1

\* A finished request of two sites: the first was fetched on the lightweight
\* path, the second failed on both paths.
C5_Witness ==
    \E r \in Requests :
        /\ task[r].pc = "done"
        /\ task[r].lw_tried = <<1, 2>>
        /\ task[r].render_tried = <<2>>
        /\ task[r].all_markdown = <<Block(1, "lightweight")>>

\* C6: a request none of whose sites gave a block never calls the reasoning
\* service, and it ends with a 500 raised before the analysis.
C6_NoContentNoAnalysis ==
    \A r \in Requests :
        (task[r].x_api_key /\ \A s \in Sites(r) : BlocksOf(r, s) = {}) =>
            /\ task[r].ai_calls = <<>>
            /\ task[r].pc \notin {"ai_primary", "ai_retry"}
            /\ task[r].pc = "done"
                   => task[r].response \in {"500_no_content", "500_crawler"}

\* A finished request of two sites whose four fetches all failed.
C6_Witness ==
    \E r \in Requests :
        /\ task[r].pc = "done"
        /\ task[r].lw_tried = <<1, 2>>
        /\ task[r].render_tried = <<1, 2>>
        /\ task[r].all_markdown = <<>>
        /\ task[r].response = "500_no_content"

\* C7: the reasoning service is called at most twice per request, first with
\* search; the retry is made exactly when the first call failed (it raised,
\* or its response was empty or unparseable), after it, once, in JSON mode; a
\* parsed answer is the response and a failed retry is the 500.
C7_OneRetryInJsonMode ==
    \A r \in Requests :
        LET c == task[r].ai_calls
        IN  /\ Len(c) <= 2
            /\ Len(c) >= 1 => c[1].mode = "search"
            /\ Len(c) = 2 => c[2].mode = "json" /\ c[1].outcome = "failed"
            /\ (Len(c) >= 1 /\ c[1].outcome = "failed") => Len(c) = 2
            /\ (task[r].pc = "ai_primary") <=> (Len(c) = 1 /\ c[1].outcome = "pending")
            /\ (task[r].pc = "ai_retry") <=> (Len(c) = 2 /\ c[2].outcome = "pending")
            /\ (task[r].pc = "done" /\ Len(c) = 1)
                   => c[1].outcome = "parsed" /\ task[r].response = "ok"
            /\ (task[r].pc = "done" /\ Len(c) = 2)
                   => \/ c[2].outcome = "parsed" /\ task[r].response = "ok"
                      \/ c[2].outcome = "failed" /\ task[r].response = "500_ai"

\* The primary call failed, the retry in JSON mode failed too and the request
\* ended with the 500.
C7_Witness ==
    \E r \in Requests :
        /\ task[r].pc = "done"
        /\ task[r].ai_calls = <<[mode |-> "search", outcome |-> "failed"],
                                [mode |-> "json", outcome |-> "failed"]>>
        /\ task[r].response = "500_ai"

\* C8: a request without credential has ended with the 400 and has issued no
\* lightweight fetch, never entered or waited for the semaphore, issued no
\* render fetch and made no call to the reasoning service.
C8_NoCredentialNoWork ==
    \A r \in Requests :
        (task[r].pc # "idle" /\ ~task[r].x_api_key) =>
            /\ task[r].pc = "done"
            /\ task[r].response = "400"
            /\ task[r].lw_tried = <<>> /\ task[r].lw_inflight = {}
            /\ task[r].acquires = 0
            /\ r \notin holders
            /\ r \notin Range(scraping_semaphore.waiters)
            /\ task[r].crawler = "none"
            /\ task[r].render_tried = <<>> /\ task[r].crawl_inflight = {}
            /\ task[r].ai_calls = <<>>

\* A request without credential has been answered with the 400.
C8_Witness ==
    \E r \in Requests :
        /\ task[r].pc = "done"
        /\ ~task[r].x_api_key
        /\ task[r].response = "400"
        /\ log_task[r] = "scheduled"

\* C9 as claimed: a request that has entered its render phase (it acquired the
\* permit) and left it has tried every site of sites_needing_browser.
C9_RenderPhaseTriesAll ==
    \A r \in Requests :
        (task[r].acquires >= 1 /\ CorpusAssembled(r))
            => task[r].render_tried = task[r].sites_needing_browser

\* C9 as amended: render attempts are made in list order; once the browser
\* has started every site of sites_needing_browser gets its attempt whatever
\* the earlier attempts gave, and without a started browser none does.
C9_StartedBrowserTriesAll ==
    \A r \in Requests :
        /\ IsPrefix(task[r].render_tried, task[r].sites_needing_browser)
        /\ (task[r].crawler_started
                /\ (task[r].pc = "browser_stop" \/ CorpusAssembled(r)))
               => task[r].render_tried = task[r].sites_needing_browser
        /\ ~task[r].crawler_started => task[r].render_tried = <<>>

\* Both sites went to the browser, the first attempt gave nothing and the
\* second site was still tried.
C9_Witness ==
    \E r \in Requests :
        /\ task[r].pc = "browser_stop"
        /\ task[r].sites_needing_browser = <<1, 2>>
        /\ task[r].render_tried = <<1, 2>>
        /\ BlocksOf(r, 1) = {}

CanResumeFetch(r) ==
    ENABLED (\E s \in 1..MaxSites, resp \in LwResponses :
                 LightweightReturn(r, s, resp) /\ UNCHANGED call)

\* C11 as claimed: the log task changes nothing the handler reads or
\* returns, whatever its outcome (not configured, inserted, insert failed),
\* and the handler never waits for it: a handler suspended in a lightweight
\* fetch can resume, when the event loop is free, whether or not the log task
\* of its request is over.
C11_LogNeverDelaysHandler ==
    /\ [][\A r \in Requests, configured \in BOOLEAN, ok \in BOOLEAN :
              LogSearch(r, configured, ok)
                  => UNCHANGED <<task, scraping_semaphore, holders>>]_vars
    /\ [](\A r \in Requests :
              (task[r].pc = "lw_fetch" /\ LoopFree) => CanResumeFetch(r))

\* The responses of a lightweight fetch that give no usable content: a
\* non-200 status, a timeout or network error, a body that is not useful.
NoUsableContent == {"non200", "exception", "small"}

\* The sites of request r whose lightweight fetch has returned.
LwCompleted(r) == Range(task[r].lw_tried) \ task[r].lw_inflight

\* C12: the lightweight fetch of a site that returns queues the site for the
\* browser exactly when the response gave no usable content, and otherwise
\* puts the site's block in the corpus; at every moment the sites queued for
\* the browser are the completed sites without a lightweight block, and only
\* queued sites are ever render-fetched.
C12_EscalatedIffNoContent ==
    /\ [][\A r \in Requests, s \in 1..MaxSites, resp \in LwResponses :
              LightweightReturn(r, s, resp) =>
                  /\ (s \in Range(task'[r].sites_needing_browser))
                         <=> (resp \in NoUsableContent)
                  /\ (Block(s, "lightweight") \in Range(task'[r].all_markdown))
                         <=> (resp \notin NoUsableContent)]_vars
    /\ [](\A r \in Requests :
              /\ Range(task[r].sites_needing_browser) =
                     {s \in LwCompleted(r) :
                          Block(s, "lightweight") \notin Range(task[r].all_markdown)}
              /\ Range(task[r].render_tried) \cup task[r].crawl_inflight
                     \subseteq Range(task[r].sites_needing_browser))

\* Of two sites the first gave content on the lightweight path and is done,
\* the second gave none and is being render-fetched.
C12_Witness ==
    \E r \in Requests :
        /\ task[r].all_markdown = <<Block(1, "lightweight")>>
        /\ task[r].sites_needing_browser = <<2>>
        /\ task[r].crawl_inflight = {2}

\* Request r has entered the semaphore, owns its permit or is queued for it.
TouchesSemaphore(r) ==
    \/ task[r].acquires >= 1
    \/ r \in holders
    \/ r \in Range(scraping_semaphore.waiters)
    \/ task[r].pc = "sem_wait"

\* C13: a request enters the semaphore at most once, and it enters, owns the
\* permit or queues for it only with a site that needs the browser; a request
\* that leaves the lightweight loop with no such site goes on to the end of
\* the handler in that same step, whoever owns the permit.
C13_PermitOnlyWhenNeeded ==
    /\ [](\A r \in Requests :
              /\ task[r].acquires <= 1
              /\ TouchesSemaphore(r) => task[r].sites_needing_browser # <<>>)
    /\ [][\A r \in Requests :
              (/\ task[r].pc \in {"idle", "lw_fetch"}
               /\ task'[r].pc \notin {"idle", "lw_fetch"}
               /\ task'[r].x_api_key
               /\ task'[r].sites_needing_browser = <<>>)
                  => /\ task'[r].pc \in {"ai_primary", "done"}
                     /\ ~TouchesSemaphore(r)'
                     /\ UNCHANGED <<scraping_semaphore, holders>>]_vars

\* A request whose two sites both gave content on the lightweight path is in
\* its analysis, never having entered the semaphore, while another request
\* owns the permit and crawls.
C13_Witness ==
    \E r, q \in Requests :
        /\ r # q
        /\ task[r].pc = "ai_primary"
        /\ task[r].all_markdown = <<Block(1, "lightweight"), Block(2, "lightweight")>>
        /\ task[r].acquires = 0
        /\ q \in holders
        /\ task[q].crawl_inflight # {}

\* The browser of request r fails in this step: AsyncWebCrawler raises on
\* start or on shutdown.
BrowserFails(r) == BrowserStartReturn(r, FALSE) \/ BrowserStopReturn(r, FALSE)

\* C19: while a handler runs, its corpus only grows at the end (what was
\* appended stays); a browser failure of a request whose corpus holds content
\* gives up the permit and takes the request into the analysis with that
\* corpus, and a browser failure with an empty corpus ends it with the 500.
C19_ContentSurvivesBrowserFailure ==
    /\ [][\A r \in Requests :
              task[r].pc \notin {"idle", "done"}
                  => IsPrefix(task[r].all_markdown, task'[r].all_markdown)]_vars
    /\ [][\A r \in Requests :
              BrowserFails(r) =>
                  /\ r \notin holders'
                  /\ task'[r].all_markdown = task[r].all_markdown
                  /\ IF task[r].all_markdown # <<>>
                     THEN /\ task'[r].pc = "ai_primary"
                          /\ task'[r].response = "none"
                     ELSE /\ task'[r].pc = "done"
                          /\ task'[r].response = "500_crawler"]_vars
    /\ [](\A r \in Requests :
              task[r].response = "500_crawler" => task[r].all_markdown = <<>>)

\* The first site gave content on the lightweight path, the second needed the
\* browser, the browser did not start, and the request is in its analysis
\* with the lightweight block.
C19_Witness ==
    \E r \in Requests :
        /\ task[r].pc = "ai_primary"
        /\ task[r].all_markdown = <<Block(1, "lightweight")>>
        /\ task[r].sites_needing_browser = <<2>>
        /\ task[r].acquires = 1
        /\ ~task[r].crawler_started
        /\ r \notin holders

\* Request r has begun its render phase: it has entered the semaphore or
\* queues for it, or has a browser or a render fetch.
RenderBegun(r) ==
    \/ task[r].pc \in {"sem_wait", "browser_start", "render", "browser_stop"}
    \/ task[r].acquires >= 1
    \/ task[r].crawler # "none"
    \/ task[r].render_tried # <<>>
    \/ task[r].crawl_inflight # {}

\* C20: the phases of a request do not overlap.  Once its render phase has
\* begun every site has had its lightweight attempt and none is in flight;
\* while it owns the permit or has a browser it has made no call to the
\* reasoning service; and while it is in a call to the reasoning service it
\* owns no permit, has no browser and has no fetch of either kind in flight.
C20_PhasesDoNotOverlap ==
    \A r \in Requests :
        /\ RenderBegun(r) =>
               /\ task[r].lw_tried = task[r].websites
               /\ task[r].lw_inflight = {}
        /\ (r \in holders \/ task[r].crawler # "none" \/ task[r].pc = "sem_wait")
               => task[r].ai_calls = <<>>
        /\ task[r].pc \in {"ai_primary", "ai_retry"} =>
               /\ r \notin holders
               /\ r \notin Range(scraping_semaphore.waiters)
               /\ task[r].crawler = "none"
               /\ task[r].crawl_inflight = {}
               /\ task[r].lw_inflight = {}

\* A request that went through all three phases is in its analysis: both
\* sites were tried on the lightweight path, the second one was rendered, and
\* the permit is free again.
C20_Witness ==
    \E r \in Requests :
        /\ task[r].pc = "ai_primary"
        /\ task[r].lw_tried = <<1, 2>>
        /\ task[r].render_tried = <<2>>
        /\ task[r].all_markdown = <<Block(1, "lightweight"), Block(2, "rendered")>>
        /\ task[r].acquires = 1
        /\ holders = {}
        /\ scraping_semaphore.value = 1

----------------------------------------------------------------------------
(* The helper functions.  Each is specified on its own: the initial states *)
(* hold a call with its arguments, the step applies the function.          *)
(*                                                                         *)
(* A Python string is a sequence of pieces: a literal of the program, the  *)
(* whole of a text the function was given, or its first len characters.    *)

\* The limit of the body text and of the raw fallback, in characters.
BodyLimit == 50000
\* A 200 response longer than this is taken by lightweight_fetch.
UsefulLength == 5000

\* How far around a limit the text lengths are drawn.
LenSpread == 1
\* Longest title, in words.
MaxTitleLen == 2

Min(a, b) == IF a <= b THEN a ELSE b

Lit(s) == [kind |-> "lit", text |-> s, len |-> 0]

Whole(src) == [kind |-> "whole", text |-> src, len |-> 0]

\* A text of n characters: the first n characters of the input named src.
Chars(src, n) == [kind |-> "chars", text |-> src, len |-> n]

\* text[:k]
Slice(t, k) == [t EXCEPT !.len = Min(@, k)]

\* The lengths around a limit c.
Probe(c) == {c - d : d \in 0..LenSpread} \cup {c + d : d \in 1..LenSpread}

\* The sequences over S of length at most n.
SeqUpTo(S, n) == UNION {[1..k -> S] : k \in 0..n}

\* word in text, for a text given as its words.
Contains(words, w) == \E i \in 1..Len(words) : words[i] = w

\* What soup.title is: no title tag, a title tag whose .string is None (an
\* empty title, a title with nested tags), or a title with its text.
Titles ==
    {[tag |-> "absent", words |-> <<>>], [tag |-> "no_string", words |-> <<>>]}
        \cup {[tag |-> "string", words |-> w] :
                  w \in SeqUpTo({"503", "Service Unavailable", "Shop"}, MaxTitleLen)}

\* An html_content, by what the parser and the regex find in it: whether
\* BeautifulSoup raises; the script with id __NEXT_DATA__ and its .string;
\* whether the regex for that script matches; whether the text mentions
\* __NEXT_DATA__ at all; the title; the body and the length of its text; the
\* length of the markup.  The text of the body is not longer than the markup.
Pages ==
    {p \in [parse : {"ok", "raises"},
            next_data : {"absent", "string", "no_string"},
            regex : BOOLEAN,
            mentions_next_data : BOOLEAN,
            title : Titles,
            body : BOOLEAN,
            body_len : {0} \cup Probe(BodyLimit),
            html_len : Probe(UsefulLength) \cup Probe(BodyLimit)] :
        /\ p.body_len <= p.html_len
        /\ ~p.body => p.body_len = 0
        /\ (p.next_data # "absent" \/ p.regex) <=> p.mentions_next_data}

Urls == {"https://www.takealot.com/all?q=USB%20cable",
         "https://example.org/search?q=USB%20cable"}

\* f"--- SOURCE...: {url} ---\n{payload}\n"
SourceBlock(header, url, payload) ==
    <<Lit(header), Lit(url), Lit(" ---\n")>> \o payload \o <<Lit("\n")>>

\* A truncation that also cuts a text of exactly the limit.
Truncate_at_limit(t) ==
    IF t.len >= BodyLimit
    THEN <<Slice(t, BodyLimit), Lit("... (truncated)")>>
    ELSE <<t>>

\* Lines 164-165.
Truncate(t) ==
    IF t.len > BodyLimit
    THEN <<Slice(t, BodyLimit), Lit("... (truncated)")>>
    ELSE <<t>>

\* Lines 170-172: the except branch.
RawFallback(page, url) ==
    SourceBlock("--- SOURCE: ", url,
                <<Slice(Chars("html_content", page.html_len), BodyLimit)>>)

\* Line 156.
TitleBlocked(title) ==
    Contains(title.words, "503") \/ Contains(title.words, "Service Unavailable")

\* An extractor without the test of the title.
extract_content_from_html_no_title_test(page, url) ==
    IF page.parse = "raises"
    THEN RawFallback(page, url)
    ELSE IF page.next_data # "absent"
    THEN SourceBlock("--- SOURCE (Next.js Data): ", url,
             <<IF page.next_data = "string"
               THEN Whole("next_data.string") ELSE Lit("None")>>)
    ELSE IF page.regex
    THEN SourceBlock("--- SOURCE (Next.js Data): ", url,
             <<Whole("next_data_regex.group(1)")>>)
    ELSE SourceBlock("--- SOURCE: ", url,
             Truncate(Chars("body_content", page.body_len)))

\* Lines 136-172.  A title tag without .string makes the test of line 156
\* raise a TypeError, which the except branch catches like a parser error.
extract_content_from_html(page, url) ==
    IF page.parse = "raises"
    THEN RawFallback(page, url)
    ELSE IF page.next_data # "absent"
    THEN SourceBlock("--- SOURCE (Next.js Data): ", url,
             <<IF page.next_data = "string"
               THEN Whole("next_data.string") ELSE Lit("None")>>)
    ELSE IF page.regex
    THEN SourceBlock("--- SOURCE (Next.js Data): ", url,
             <<Whole("next_data_regex.group(1)")>>)
    ELSE IF page.title.tag = "no_string"
    THEN RawFallback(page, url)
    ELSE IF TitleBlocked(page.title)
    THEN SourceBlock("--- SOURCE (BLOCKED): ", url,
             <<Lit("ERROR: Amazon blocked the request (503 Service Unavailable).")>>)
    ELSE SourceBlock("--- SOURCE: ", url,
             Truncate(Chars("body_content", page.body_len)))

\* The handler's variables while a helper function is looked at on its own.
HandlerIdle ==
    /\ scraping_semaphore = SemaphoreInit
    /\ holders = {}
    /\ task = [r \in Requests |-> IdleTask]
    /\ log_task = [r \in Requests |-> "none"]

ExtractInit ==
    /\ HandlerIdle
    /\ call \in {[fn |-> "extract_content_from_html", html_content |-> p,
                  url |-> u, returned |-> FALSE, result |-> <<>>] :
                     p \in Pages, u \in Urls}

ExtractContent ==
    /\ call.fn = "extract_content_from_html"
    /\ ~call.returned
    /\ call' = [call EXCEPT !.returned = TRUE,
                            !.result = extract_content_from_html(
                                           call.html_content, call.url)]
    /\ UNCHANGED <<scraping_semaphore, holders, task, log_task>>

ExtractNext == ExtractContent

ExtractSpec == ExtractInit /\ [][ExtractNext]_vars

\* The parts of a block: its header, the URL it names and its payload.
BlockHeader(b) == b[1].text
BlockUrl(b) == b[2].text
BlockPayload(b) == SubSeq(b, 4, Len(b) - 1)

\* The conditions of the strategies, on the page alone.
ParserRaises(p) == p.parse = "raises"
HasScript(p) == p.next_data # "absent"
TitleRaises(p) == p.title.tag = "no_string"
BlockTitle(p) ==
    /\ p.title.tag = "string"
    /\ \E i \in 1..Len(p.title.words) :
           p.title.words[i] \in {"503", "Service Unavailable"}

\* C15 as claimed: the block the extractor returns is the result of the first
\* strategy that applies, in the order hydration script found in the parse
\* tree, hydration script found by the regex, blocked marker for a title
\* with "503" or "Service Unavailable" (no body text in the block), body
\* text, and the raw prefix of the markup when the parser raised.  A page
\* with a hydration script and a block title gives the hydration block.
\* Every block starts with a header that names the URL.
C15_StrategiesInPriorityOrder ==
    (call.fn = "extract_content_from_html" /\ call.returned) =>
        LET p == call.html_content
            b == call.result
            hydrated == ~ParserRaises(p) /\ (HasScript(p) \/ p.regex)
            failed == ParserRaises(p)
        IN  /\ Len(b) >= 5
            /\ b[1] \in {Lit("--- SOURCE (Next.js Data): "),
                         Lit("--- SOURCE (BLOCKED): "), Lit("--- SOURCE: ")}
            /\ b[2] = Lit(call.url) /\ b[3] = Lit(" ---\n")
            /\ b[Len(b)] = Lit("\n")
            /\ (~ParserRaises(p) /\ HasScript(p)) =>
                   /\ BlockHeader(b) = "--- SOURCE (Next.js Data): "
                   /\ BlockPayload(b) \in {<<Whole("next_data.string")>>, <<Lit("None")>>}
            /\ (~ParserRaises(p) /\ ~HasScript(p) /\ p.regex) =>
                   /\ BlockHeader(b) = "--- SOURCE (Next.js Data): "
                   /\ BlockPayload(b) = <<Whole("next_data_regex.group(1)")>>
            /\ (~hydrated /\ ~failed /\ BlockTitle(p)) =>
                   /\ BlockHeader(b) = "--- SOURCE (BLOCKED): "
                   /\ BlockPayload(b) = <<Lit(
                          "ERROR: Amazon blocked the request (503 Service Unavailable).")>>
            /\ (~hydrated /\ ~failed /\ ~BlockTitle(p)) =>
                   /\ BlockHeader(b) = "--- SOURCE: "
                   /\ BlockPayload(b)[1].text = "body_content"
            /\ failed =>
                   /\ BlockHeader(b) = "--- SOURCE: "
                   /\ BlockPayload(b) =
                          <<Chars("html_content", Min(p.html_len, BodyLimit))>>

\* The page of the call went through the body-text strategy.
BodyStrategy(p) ==
    /\ ~ParserRaises(p) /\ ~HasScript(p) /\ ~p.regex
    /\ ~TitleRaises(p) /\ ~BlockTitle(p)

\* C17: for a body text of n characters the extracted text is its first
\* min(n, BodyLimit) characters, followed by the truncation marker exactly
\* when n > BodyLimit; a text of at most BodyLimit characters is unmodified.
C17_BodyTextBounded ==
    (/\ call.fn = "extract_content_from_html" /\ call.returned
     /\ BodyStrategy(call.html_content)) =>
        LET n == call.html_content.body_len
            text == BlockPayload(call.result)
        IN  /\ text[1] = Chars("body_content", Min(n, BodyLimit))
            /\ (n > BodyLimit) <=> (Len(text) = 2)
            /\ (n > BodyLimit) => text[2] = Lit("... (truncated)")
            /\ (n <= BodyLimit) => text = <<Chars("body_content", n)>>

\* A body text of exactly BodyLimit characters has come through unmodified.
C17_Witness ==
    /\ call.fn = "extract_content_from_html" /\ call.returned
    /\ BodyStrategy(call.html_content)
    /\ call.html_content.body_len = BodyLimit
    /\ BlockPayload(call.result) = <<Chars("body_content", BodyLimit)>>

----------------------------------------------------------------------------
(* robust_json_extract.  The text of the model's answer is a sequence of   *)
(* tokens: the fence markers (three backticks followed by json: FENCE_JSON; *)
(* three backticks: FENCE) and the brackets of JSON.  The JSON values are   *)
(* the empty object and the arrays of values; commas and white space are    *)
(* left out, and what json.loads returns is identified by the text parsed.  *)

\* Longest answer, in tokens.
MaxTextLen == 6

JsonTokens == {"FENCE_JSON", "FENCE", "{", "}", "[", "]"}

Texts == SeqUpTo(JsonTokens, MaxTextLen)

Opener(c) == IF c = "}" THEN "{" ELSE "["

\* The scan of json.loads from token i with the open brackets on the stack:
\* TRUE iff the text is one value that ends with the text.
RECURSIVE JsonScan(_, _, _)
JsonScan(toks, i, stack) ==
    IF i > Len(toks) THEN FALSE
    ELSE IF toks[i] \in {"{", "["}
    THEN /\ stack = <<>> \/ Head(stack) = "["
         /\ JsonScan(toks, i + 1, <<toks[i]>> \o stack)
    ELSE IF toks[i] \in {"}", "]"}
    THEN /\ stack # <<>>
         /\ Head(stack) = Opener(toks[i])
         /\ IF Len(stack) = 1 THEN i = Len(toks)
            ELSE JsonScan(toks, i + 1, Tail(stack))
    ELSE FALSE

\* json.loads(toks) does not raise JSONDecodeError.
Loads(toks) == JsonScan(toks, 1, <<>>)

\* The least element of a non-empty set of numbers, 0 for the empty set.
First(S) == IF S = {} THEN 0 ELSE CHOOSE i \in S : \A j \in S : i <= j
Last(S) == IF S = {} THEN 0 ELSE CHOOSE i \in S : \A j \in S : j <= i

\* The re.findall of line 243 from token i on: the opening
\* marker, then everything up to the next three backticks, which are a
\* closing marker or the start of another opening marker.
RECURSIVE FindFenced(_, _)
FindFenced(toks, i) ==
    LET o == First({k \in i..Len(toks) : toks[k] = "FENCE_JSON"})
        c == IF o = 0 THEN 0
             ELSE First({k \in (o + 1)..Len(toks) : toks[k] \in {"FENCE", "FENCE_JSON"}})
    IN  IF o = 0 \/ c = 0 THEN <<>>
        ELSE <<SubSeq(toks, o + 1, c - 1)>> \o FindFenced(toks, c + 1)

\* The re.search of line 252: from the first "{" to the last "}" after it;
\* the empty text when there is no match.
BraceSpan(toks) ==
    LET a == First({k \in 1..Len(toks) : toks[k] = "{"})
        b == Last({k \in 1..Len(toks) : toks[k] = "}"})
    IN  IF a = 0 \/ b < a THEN <<>> ELSE SubSeq(toks, a, b)

\* The two re.sub calls of lines 260-261.
StripFences(toks) == SelectSeq(toks, LAMBDA c : c \notin {"FENCE_JSON", "FENCE"})

Returned(v) == [raised |-> FALSE, value |-> v]
Raised == [raised |-> TRUE, value |-> <<>>]

\* Lines 244-249: the loop over the blocks from block k on; 0 when no block
\* from k on parses.
RECURSIVE FirstParsing(_, _)
FirstParsing(blocks, k) ==
    IF k > Len(blocks) THEN 0
    ELSE IF Loads(blocks[k]) THEN k
    ELSE FirstParsing(blocks, k + 1)

\* An extraction that tries the brace span before the fenced blocks.
robust_json_extract_braces_first(text) ==
    LET json_blocks == FindFenced(text, 1)
        k == FirstParsing(json_blocks, 1)
        match == BraceSpan(text)
        cleaned == StripFences(text)
    IN  IF match # <<>> /\ Loads(match) THEN Returned(match)
        ELSE IF k # 0 THEN Returned(json_blocks[k])
        ELSE IF Loads(cleaned) THEN Returned(cleaned)
        ELSE Raised

\* Lines 237-262.
robust_json_extract(text) ==
    LET json_blocks == FindFenced(text, 1)
        k == FirstParsing(json_blocks, 1)
        match == BraceSpan(text)
        cleaned == StripFences(text)
    IN  IF k # 0 THEN Returned(json_blocks[k])
        ELSE IF match # <<>> /\ Loads(match) THEN Returned(match)
        ELSE IF Loads(cleaned) THEN Returned(cleaned)
        ELSE Raised

JsonInit ==
    /\ HandlerIdle
    /\ call \in {[fn |-> "robust_json_extract", text |-> t, returned |-> FALSE,
                  result |-> Raised] : t \in Texts}

RobustJsonExtract ==
    /\ call.fn = "robust_json_extract"
    /\ ~call.returned
    /\ call' = [call EXCEPT !.returned = TRUE,
                            !.result = robust_json_extract(call.text)]
    /\ UNCHANGED <<scraping_semaphore, holders, task, log_task>>

JsonNext == RobustJsonExtract

JsonSpec == JsonInit /\ [][JsonNext]_vars

\* The fenced json blocks of a text, in order of appearance.
FencedBlocks(text) == FindFenced(text, 1)

\* C16: the answer is recovered by the first strategy that yields a text
\* that parses: the first fenced json block that parses, in order of
\* appearance; only if no block parses, the span from the first "{" to the
\* last "}"; only if there is no such span or it does not parse, the text
\* with the fence markers stripped; and the extraction raises exactly when
\* none of the three parses.
C16_FirstParsingStrategyWins ==
    (call.fn = "robust_json_extract" /\ call.returned) =>
        LET blocks == FencedBlocks(call.text)
            good == {k \in 1..Len(blocks) : Loads(blocks[k])}
            span == BraceSpan(call.text)
            rest == StripFences(call.text)
            out == call.result
        IN  /\ good # {} =>
                   /\ ~out.raised
                   /\ out.value = blocks[First(good)]
            /\ (good = {} /\ Loads(span)) =>
                   ~out.raised /\ out.value = span
            /\ (good = {} /\ ~Loads(span) /\ Loads(rest)) =>
                   ~out.raised /\ out.value = rest
            /\ out.raised <=> (good = {} /\ ~Loads(span) /\ ~Loads(rest))

\* The first fenced block is empty and does not parse, the second one parses
\* and is the answer.
C16_Witness ==
    /\ call.fn = "robust_json_extract" /\ call.returned
    /\ call.text = <<"FENCE_JSON", "FENCE", "FENCE_JSON", "[", "]", "FENCE">>
    /\ call.result = Returned(<<"[", "]">>)

----------------------------------------------------------------------------
(* get_search_url.  The site identifier and the product name are sequences *)
(* of tokens: a scheme, a host name, a slash, a path segment, a blank; a   *)
(* word, a blank.  The URL returned is a sequence of strings.              *)

\* Longest site identifier, in tokens.
MaxDomainLen == 3
\* Longest product name, in tokens.
MaxProductLen == 3

DomainTokens ==
    {"https://", "HTTP://", "example.org", "Amazon.com", "httpbin.org", "/", " "}

ProductTokens == {"USB", " ", "cable"}

\* Lines 109-119, each template up to its {query}, which ends it.
SEARCH_MAP ==
    [d \in {"amazon.co.za", "amazon.com", "takealot.com", "makro.co.za",
            "clicks.co.za", "dischem.co.za", "pnp.co.za", "game.co.za",
            "checkers.co.za"} |->
        CASE d = "amazon.co.za"   -> "https://www.amazon.co.za/s?k="
          [] d = "amazon.com"     -> "https://www.amazon.com/s?k="
          [] d = "takealot.com"   -> "https://www.takealot.com/all?q="
          [] d = "makro.co.za"    -> "https://www.makro.co.za/search/?text="
          [] d = "clicks.co.za"   -> "https://www.clicks.co.za/search?text="
          [] d = "dischem.co.za"  -> "https://www.dischem.co.za/catalogsearch/result/?q="
          [] d = "pnp.co.za"      -> "https://www.pnp.co.za/pnpstorefront/pnp/en/search/?text="
          [] d = "game.co.za"     -> "https://www.game.co.za/search/?text="
          [] d = "checkers.co.za" -> "https://www.checkers.co.za/search?q="]

\* urllib.parse.quote, token by token: a blank becomes %20, words stay.
Quote(name) == [i \in 1..Len(name) |-> IF name[i] = " " THEN "%20" ELSE name[i]]

\* str.lower, token by token.
Lower(d) ==
    [i \in 1..Len(d) |->
        CASE d[i] = "HTTP://"    -> "http://"
          [] d[i] = "Amazon.com" -> "amazon.com"
          [] OTHER               -> d[i]]

\* .replace("https://", "").replace("http://", "")
DropSchemes(d) == SelectSeq(d, LAMBDA c : c \notin {"https://", "http://"})

\* .split('/')[0]
UpToSlash(d) ==
    LET k == First({i \in 1..Len(d) : d[i] = "/"})
    IN  IF k = 0 THEN d ELSE SubSeq(d, 1, k - 1)

\* .strip()
RECURSIVE Strip(_)
Strip(d) ==
    IF d = <<>> THEN d
    ELSE IF Head(d) = " " THEN Strip(Tail(d))
    ELSE IF d[Len(d)] = " " THEN Strip(SubSeq(d, 1, Len(d) - 1))
    ELSE d

\* Line 125.
CleanDomain(domain) == Strip(UpToSlash(DropSchemes(Lower(domain))))

\* "http" in domain: the tokens that hold the substring http.
HasHttp(domain) ==
    \E i \in 1..Len(domain) : domain[i] \in {"https://", "http://", "httpbin.org"}

\* SEARCH_MAP.get(clean_domain): the key is the whole of the cleaned text.
Mapped(clean) == Len(clean) = 1 /\ clean[1] \in DOMAIN SEARCH_MAP

\* Lines 121-134.
get_search_url(domain, product_name) ==
    LET query == Quote(product_name)
        clean_domain == CleanDomain(domain)
    IN  IF Mapped(clean_domain)
        THEN <<SEARCH_MAP[clean_domain[1]]>> \o query
        ELSE IF HasHttp(domain)
        THEN domain \o <<"/search?q=">> \o query
        ELSE <<"https://">> \o clean_domain \o <<"/search?q=">> \o query

UrlInit ==
    /\ HandlerIdle
    /\ call \in {[fn |-> "get_search_url", domain |-> d, product_name |-> n,
                  returned |-> FALSE, result |-> <<>>] :
                     d \in SeqUpTo(DomainTokens, MaxDomainLen),
                     n \in SeqUpTo(ProductTokens, MaxProductLen)}

GetSearchUrl ==
    /\ call.fn = "get_search_url"
    /\ ~call.returned
    /\ call' = [call EXCEPT !.returned = TRUE,
                            !.result = get_search_url(call.domain,
                                                      call.product_name)]
    /\ UNCHANGED <<scraping_semaphore, holders, task, log_task>>

UrlNext == GetSearchUrl

UrlSpec == UrlInit /\ [][UrlNext]_vars

\* An identifier that is a full URL: it starts with a scheme.
IsFullUrl(domain) == domain # <<>> /\ domain[1] \in {"https://", "http://"}

\* An identifier with no scheme in it, in either case.
NoScheme(domain) ==
    \A i \in 1..Len(domain) : domain[i] \notin {"https://", "http://", "HTTP://"}

\* C18 as claimed, read in the claim's favour where its words leave room: the
\* URL is chosen on the cleaned bare domain.  A mapped domain gives its
\* template with the encoded product name; an unmapped identifier that is a
\* full URL gives that URL with the query parameter appended (as ?q= or as
\* /search?q=) and the encoded product name; an unmapped identifier without
\* a scheme gives https://, the cleaned domain, /search?q= and the encoded
\* product name.
C18_ThreeCases ==
    (call.fn = "get_search_url" /\ call.returned) =>
        LET clean == CleanDomain(call.domain)
            query == Quote(call.product_name)
        IN  /\ Mapped(clean) =>
                   call.result = <<SEARCH_MAP[clean[1]]>> \o query
            /\ (~Mapped(clean) /\ IsFullUrl(call.domain)) =>
                   call.result \in {call.domain \o <<"?q=">> \o query,
                                    call.domain \o <<"/search?q=">> \o query}
            /\ (~Mapped(clean) /\ NoScheme(call.domain)) =>
                   call.result =
                       <<"https://">> \o clean \o <<"/search?q=">> \o query

----------------------------------------------------------------------------
(* The acquisition of one request, with the pages its fetches return: the  *)
(* lightweight loop, the browser block and the empty-corpus check, run by  *)
(* a single handler.  all_markdown holds the blocks of the extractor.      *)

\* What client.get gives: an exception, or a response with its status code.
Statuses == {"exception", "non200", "200"}

\* "takealot" in url
IsTakealot(url) == url = "https://www.takealot.com/all?q=USB%20cable"

\* Lines 194-203: the tests of lightweight_fetch on the response.
ResponseClass(url, status, page) ==
    IF status # "200" THEN status
    ELSE IF IsTakealot(url) /\ page.mentions_next_data THEN "hydrated"
    ELSE IF page.html_len > UsefulLength THEN "large"
    ELSE "small"

\* What a fetch brought back: no page, a page whose title indicates a block
\* (block_hidden when the parser raises on the page or the page carries
\* hydration data, which the extractor looks at before the title), or a
\* page with another title.
PageKind(page) ==
    IF ~BlockTitle(page) THEN "other"
    ELSE IF ParserRaises(page) \/ HasScript(page) \/ page.regex
    THEN "block_hidden"
    ELSE "block"

\* The record of one fetch: the site (its place in websites), the path, what
\* came back, whether the page was passed to extract_content_from_html, and
\* the place of its block in all_markdown (0: no block).
Fetch(site, via, kind, extracted, at) ==
    [site |-> site, via |-> via, kind |-> kind, extracted |-> extracted,
     at |-> at]

\* The pages the fetches of a request return: markup around the length
\* lightweight_fetch asks for, with a title of at most one word.
SitePages ==
    {p \in Pages : /\ p.html_len \in {UsefulLength, UsefulLength + 1}
                   /\ Len(p.title.words) <= 1}

\* Lines 309 and 349: where the handler goes after the lightweight loop.
AfterLoop(c) ==
    IF c.done < Len(c.websites) THEN "lightweight"
    ELSE IF c.sites_needing_browser = <<>> THEN "check"
    ELSE "browser_start"

SiteInit ==
    /\ HandlerIdle
    /\ call \in {[fn |-> "analyze_products", websites |-> ws,
                  pc |-> IF ws = <<>> THEN "check" ELSE "lightweight",
                  done |-> 0, crawled |-> 0,
                  all_markdown |-> <<>>, sites_needing_browser |-> <<>>,
                  fetched |-> <<>>, response |-> "none"] :
                     ws \in SeqUpTo(Urls, MaxSites)}

\* Lines 300-306: one turn of the lightweight loop.
SiteLightweight ==
    /\ call.fn = "analyze_products"
    /\ call.pc = "lightweight"
    /\ \E status \in Statuses, page \in SitePages :
           LET site == call.done + 1
               url == call.websites[site]
               got == lightweight_fetch(ResponseClass(url, status, page))
               c1 == IF got
                     THEN [call EXCEPT !.all_markdown = AddBlock(@,
                               extract_content_from_html(page, url))]
                     ELSE [call EXCEPT !.sites_needing_browser = Append(@, site)]
               c2 == [c1 EXCEPT
                         !.done = site,
                         !.fetched = Append(@, Fetch(site, "lightweight",
                             IF status = "exception" THEN "nothing"
                                                     ELSE PageKind(page),
                             got,
                             IF got THEN Len(c1.all_markdown) ELSE 0))]
           IN  call' = [c2 EXCEPT !.pc = AfterLoop(c2)]
    /\ UNCHANGED <<scraping_semaphore, holders, task, log_task>>

\* Lines 341-345: the except branch of the browser block.
SiteCrawlerFailed(c) ==
    IF NoContent(c.all_markdown)
    THEN [c EXCEPT !.pc = "done", !.response = "500_crawler"]
    ELSE [c EXCEPT !.pc = "check"]

\* Line 330: the browser starts or fails to.
SiteBrowserStart ==
    /\ call.fn = "analyze_products"
    /\ call.pc = "browser_start"
    /\ \E ok \in BOOLEAN :
           call' = IF ok THEN [call EXCEPT !.pc = "render"]
                         ELSE SiteCrawlerFailed(call)
    /\ UNCHANGED <<scraping_semaphore, holders, task, log_task>>

\* Lines 332-340 with crawl_site: one turn of the browser loop.
SiteCrawl ==
    /\ call.fn = "analyze_products"
    /\ call.pc = "render"
    /\ \E res \in CrawlResults, page \in SitePages :
           LET k == call.crawled + 1
               site == call.sites_needing_browser[k]
               url == call.websites[site]
               got == crawl_site(res)
               c1 == IF got
                     THEN [call EXCEPT !.all_markdown = AddBlock(@,
                               extract_content_from_html(page, url))]
                     ELSE call
           IN  call' = [c1 EXCEPT
                   !.crawled = k,
                   !.fetched = Append(@, Fetch(site, "rendered",
                       IF got THEN PageKind(page) ELSE "nothing",
                       got,
                       IF got THEN Len(c1.all_markdown) ELSE 0)),
                   !.pc = IF LoopContinues(res)
                              /\ k < Len(call.sites_needing_browser)
                          THEN "render" ELSE "browser_stop"]
    /\ UNCHANGED <<scraping_semaphore, holders, task, log_task>>

\* Line 330: the browser shuts down or fails to.
SiteBrowserStop ==
    /\ call.fn = "analyze_products"
    /\ call.pc = "browser_stop"
    /\ \E ok \in BOOLEAN :
           call' = IF ok THEN [call EXCEPT !.pc = "check"]
                         ELSE SiteCrawlerFailed(call)
    /\ UNCHANGED <<scraping_semaphore, holders, task, log_task>>

\* Lines 349-355: the empty-corpus check; with content the handler goes on
\* to the analysis.
SiteCheck ==
    /\ call.fn = "analyze_products"
    /\ call.pc = "check"
    /\ call' = [call EXCEPT
                   !.pc = "done",
                   !.response = IF NoContent(call.all_markdown)
                                THEN "500_no_content" ELSE "analysis"]
    /\ UNCHANGED <<scraping_semaphore, holders, task, log_task>>

SiteNext ==
    \/ SiteLightweight \/ SiteBrowserStart \/ SiteCrawl
    \/ SiteBrowserStop \/ SiteCheck

SiteSpec == SiteInit /\ [][SiteNext]_vars

\* The marker of a blocked site (lines 157-158).
BlockedMarker(url) ==
    SourceBlock("--- SOURCE (BLOCKED): ", url,
        <<Lit("ERROR: Amazon blocked the request (503 Service Unavailable).")>>)

\* The fetches made so far.
Fetches == {call.fetched[i] : i \in 1..Len(call.fetched)}

\* The marker of the site of fetch f stands in the corpus where the block of
\* f was added.
Surfaced(f) ==
    /\ f.at \in 1..Len(call.all_markdown)
    /\ call.all_markdown[f.at] = BlockedMarker(call.websites[f.site])

\* The site of the lightweight fetch f is fetched again, in the browser.
FetchedAgain(f) ==
    /\ f.via = "lightweight"
    /\ \E g \in Fetches : g.site = f.site /\ g.via = "rendered"

\* The site of the lightweight fetch f is queued for the browser.
Escalated(f) ==
    /\ f.via = "lightweight"
    /\ \E k \in 1..Len(call.sites_needing_browser) :
           call.sites_needing_browser[k] = f.site

\* C14 as claimed: whenever a fetch, lightweight or rendered, has returned a
\* page whose title indicates a block, the blocked marker of that site is in
\* the corpus, the site is neither escalated nor fetched again, and a
\* request all of whose retrieved pages are such pages goes on to the
\* analysis.
C14_BlockSurfaced ==
    (call.fn = "analyze_products") =>
        LET blocked == {f \in Fetches : f.kind \in {"block", "block_hidden"}}
            pages == {f \in Fetches : f.kind # "nothing"}
        IN  /\ \A f \in blocked :
                   Surfaced(f) /\ ~Escalated(f) /\ ~FetchedAgain(f)
            /\ (call.pc = "done" /\ pages # {} /\ pages \subseteq blocked) =>
                   call.response = "analysis"

\* C14, amended: whenever extract_content_from_html has been given a fetched
\* page (a rendered page, or a lightweight 200 response that passed the
\* usefulness test) that parses, carries no hydration data and has a title
\* that indicates a block, the blocked marker of that site is in the corpus,
\* the site is neither escalated nor fetched again, and a request all of
\* whose retrieved pages are such pages goes on to the analysis.
C14_DetectedBlockSurfaced ==
    (call.fn = "analyze_products") =>
        LET detected == {f \in Fetches : f.kind = "block" /\ f.extracted}
            pages == {f \in Fetches : f.kind # "nothing"}
        IN  /\ \A f \in detected :
                   Surfaced(f) /\ ~Escalated(f) /\ ~FetchedAgain(f)
            /\ (call.pc = "done" /\ pages # {} /\ pages \subseteq detected) =>
                   call.response = "analysis"

\* Two sites, one blocked on the lightweight path and one in the browser:
\* the corpus is the two markers and the request has gone on to the analysis.
C14_Witness ==
    /\ call.fn = "analyze_products"
    /\ call.pc = "done"
    /\ call.response = "analysis"
    /\ Len(call.websites) = 2
    /\ call.fetched =
           <<Fetch(1, "lightweight", "block", TRUE, 1),
             Fetch(2, "lightweight", "block", FALSE, 0),
             Fetch(2, "rendered", "block", TRUE, 2)>>
    /\ call.all_markdown = <<BlockedMarker(call.websites[1]),
                             BlockedMarker(call.websites[2])>>

====
